---- MODULE Spec2Model ----
(***************************************************************************)
(* Master-mode TWI (I2C) driver of the ATmega16, src/i2c/i2c.c and i2c.h.  *)
(*                                                                         *)
(* The hardware registers TWCR, TWSR, TWDR and TWBR are state; the TWI     *)
(* module is the environment: it finishes a triggered job by setting TWINT *)
(* and reporting any status code of the table in i2c.h.  Every public      *)
(* function is the list of the calls it makes, in source order; the        *)
(* private functions are the actions that execute one call each.           *)
(***************************************************************************)
EXTENDS Integers, Sequences, FiniteSets, TLC

(* ------------------------------------------------------------------ *)
(* i2c.h: status codes, direction bits, results                        *)
(* ------------------------------------------------------------------ *)
MT_START == 8

MT_REP_START == 16

MT_SLA_WRITE_ACK == 24

MT_SLA_WRITE_NACK == 32

MT_DATA_TRANSMITTED_ACK == 40

MT_DATA_TRANSMITTED_NACK == 48

MT_ARB_LOST == 56

MT_SLA_READ_ACK == 64

MT_SLA_READ_NACK == 72

MT_DATA_RECEIVED_ACK == 80

MT_DATA_RECEIVED_NACK == 88

I2C_WRITE == 0

I2C_READ == 1

SUCCESS == 0

ERROR == 1

\* The codes the TWI module can leave in TWSR7:3 in master mode.
StatusCodes ==
  { MT_START, MT_REP_START, MT_SLA_WRITE_ACK, MT_SLA_WRITE_NACK,
    MT_DATA_TRANSMITTED_ACK, MT_DATA_TRANSMITTED_NACK, MT_ARB_LOST,
    MT_SLA_READ_ACK, MT_SLA_READ_NACK, MT_DATA_RECEIVED_ACK,
    MT_DATA_RECEIVED_NACK }

(* ------------------------------------------------------------------ *)
(* Bounds of the model                                                 *)
(* ------------------------------------------------------------------ *)
\* Largest len argument of the multi-byte functions, and the capacity of
\* the caller's array.
MaxLen == 3

\* uint8_t address arguments: two 7-bit addresses and one that is not.
Addresses == {39, 80, 188}

\* uint8_t reg arguments.
Regs == {0, 15}

\* Bytes the caller writes.
DataValues == {61, 195}

\* Bytes a slave sends.
RxBytes == {0, 165}

\* The caller's receive array before a read: a byte no slave sends.
ReadBuffer == [j \in 1..MaxLen |-> 238]

\* The arrays the caller passes to the multi-byte writes.
WriteBuffers == { [j \in 1..MaxLen |-> b + j] : b \in {0, 16} }

\* result while no value has been returned: neither SUCCESS nor ERROR.
NoResult == ERROR + 1

PublicFunctions ==
  { "i2c_is_device_connected", "i2c_write_no_reg", "i2c_write_with_reg",
    "i2c_write_multi_no_reg", "i2c_write_multi_with_reg", "i2c_read_no_reg",
    "i2c_read_with_reg", "i2c_read_multi_no_reg", "i2c_read_multi_with_reg" }

VARIABLES
  TWCR,     \* control register: the set of its bits that read 1
  TWSR,     \* status register, 8 bits
  TWDR,     \* data register
  TWBR,     \* bit rate register
  hwJob,    \* what the TWI module is doing: "none", "start", "tx", "rx"
  pc,       \* where the caller is
  op,       \* the public function being executed
  step,     \* index of the current call in the function's list of calls
  i,        \* the loop counter of the multi-byte functions
  address,  \* argument
  reg,      \* argument
  len,      \* argument
  data,     \* argument: the byte(s) to write, or the caller's receive array
  result,   \* the value returned
  trace,    \* the primitives and status checks of the current call, in order
  ctx,      \* the execution context that is running: "main" or "isr"
  saved,    \* the frame of the interrupted main context while "isr" runs
  jobBy,    \* who triggered the TWI module's job: <<context, index in trace>>
  statusBy, \* whose job left the code that is in TWSR
  lastRead, \* the last status check of the call: who read, whose status
  prev      \* the outcome of the probe a zero-length write follows

hw == <<TWCR, TWSR, TWDR, TWBR, hwJob>>

args == <<op, address, reg, len>>

\* Which primitive the hardware is working for, or has answered.
owner == <<jobBy, statusBy>>

\* The rest of what belongs to one call of one context.
frame == <<lastRead, prev>>

vars == <<TWCR, TWSR, TWDR, TWBR, hwJob, pc, op, step, i, address, reg, len,
          data, result, trace, ctx, saved, jobBy, statusBy, lastRead, prev>>

NoOne == <<"none", 0>>

NoRead == [reader |-> NoOne, producer |-> NoOne]

NoPrev == [trace |-> <<>>, result |-> NoResult]

NoFrame == [pc |-> "none"]

(* ------------------------------------------------------------------ *)
(* Byte arithmetic                                                     *)
(* ------------------------------------------------------------------ *)
\* x | b for a one-bit b: bit 0 of x is set if it is not already.
BitOr1(x, b) == IF x % 2 = 1 THEN x ELSE x + b

\* Faulty variant: the address is not shifted: address | dir.
SlaByte_NoShift(a, dir) == BitOr1(a, dir) % 256

\* (address << 1) | dir, computed as int and passed as the uint8_t
\* parameter of i2c_transmit.
SlaByte(a, dir) == BitOr1(a * 2, dir) % 256

\* TWSR & 0xF8: the three low-order bits are cleared.
StatusBits(twsr) == twsr - (twsr % 8)

(* ------------------------------------------------------------------ *)
(* The public functions: the calls each makes, in source order.        *)
(* prim is the call, expect the code passed to i2c_check_status after  *)
(* it, stopOnErr whether the failure branch calls i2c_stop before      *)
(* return ERROR.  "tx_loop" and "rx_loop" are the for loops over len.  *)
(* ------------------------------------------------------------------ *)
Call(p, e, s) == [prim |-> p, expect |-> e, stopOnErr |-> s]

\* The loop body of the multi-byte reads: i2c_receive_nack checked against
\* nackCode when i == len - 1, else i2c_receive_ack checked against ackCode.
RxLoop(nackCode, ackCode, s) ==
  [prim |-> "rx_loop", expect |-> nackCode, expectAck |-> ackCode,
   stopOnErr |-> s]

Stop == [prim |-> "stop", expect |-> 0, stopOnErr |-> FALSE]

\* Faulty variant: the address check expects the nack code instead of the ack code.
i2c_is_device_connected_ExpectsNack ==
  << Call("start", MT_START, FALSE),
     Call("sla_w", MT_SLA_WRITE_NACK, TRUE),
     Stop >>

i2c_is_device_connected ==
  << Call("start", MT_START, FALSE),
     Call("sla_w", MT_SLA_WRITE_ACK, TRUE),
     Stop >>

i2c_write_no_reg ==
  << Call("start", MT_START, FALSE),
     Call("sla_w", MT_SLA_WRITE_ACK, TRUE),
     Call("data", MT_DATA_TRANSMITTED_ACK, TRUE),
     Stop >>

\* Faulty variant: a stop is issued between the register byte and the data
\* byte.
i2c_write_with_reg_StopBetween ==
  << Call("start", MT_START, FALSE),
     Call("sla_w", MT_SLA_WRITE_ACK, TRUE),
     Call("reg", MT_DATA_TRANSMITTED_ACK, TRUE),
     Stop,
     Call("data", MT_DATA_TRANSMITTED_ACK, TRUE),
     Stop >>

i2c_write_with_reg ==
  << Call("start", MT_START, FALSE),
     Call("sla_w", MT_SLA_WRITE_ACK, TRUE),
     Call("reg", MT_DATA_TRANSMITTED_ACK, TRUE),
     Call("data", MT_DATA_TRANSMITTED_ACK, TRUE),
     Stop >>

\* Faulty variant: the failure branch inside the loop returns without i2c_stop.
i2c_write_multi_no_reg_NoStopInLoop ==
  << Call("start", MT_START, FALSE),
     Call("sla_w", MT_SLA_WRITE_ACK, TRUE),
     Call("tx_loop", MT_DATA_TRANSMITTED_ACK, FALSE),
     Stop >>

\* Faulty variant: an unacknowledged address returns ERROR without i2c_stop.
i2c_write_multi_no_reg_NoAddrStop ==
  << Call("start", MT_START, FALSE),
     Call("sla_w", MT_SLA_WRITE_ACK, FALSE),
     Call("tx_loop", MT_DATA_TRANSMITTED_ACK, TRUE),
     Stop >>

i2c_write_multi_no_reg ==
  << Call("start", MT_START, FALSE),
     Call("sla_w", MT_SLA_WRITE_ACK, TRUE),
     Call("tx_loop", MT_DATA_TRANSMITTED_ACK, TRUE),
     Stop >>

i2c_write_multi_with_reg ==
  << Call("start", MT_START, FALSE),
     Call("sla_w", MT_SLA_WRITE_ACK, TRUE),
     Call("reg", MT_DATA_TRANSMITTED_ACK, TRUE),
     Call("tx_loop", MT_DATA_TRANSMITTED_ACK, TRUE),
     Stop >>

\* Faulty variant: the received byte is checked against the ack-returned code.
i2c_read_no_reg_ExpectsRxAck ==
  << Call("start", MT_START, FALSE),
     Call("sla_r", MT_SLA_READ_ACK, TRUE),
     Call("rx_nack", MT_DATA_RECEIVED_ACK, TRUE),
     Stop >>

i2c_read_no_reg ==
  << Call("start", MT_START, FALSE),
     Call("sla_r", MT_SLA_READ_ACK, TRUE),
     Call("rx_nack", MT_DATA_RECEIVED_NACK, TRUE),
     Stop >>

\* Faulty variant: the failure branch of the repeated-start check calls i2c_stop.
i2c_read_with_reg_StopAfterRepStart ==
  << Call("start", MT_START, FALSE),
     Call("sla_w", MT_SLA_WRITE_ACK, TRUE),
     Call("reg", MT_DATA_TRANSMITTED_ACK, TRUE),
     Call("start", MT_REP_START, TRUE),
     Call("sla_r", MT_SLA_READ_ACK, TRUE),
     Call("rx_nack", MT_DATA_RECEIVED_NACK, TRUE),
     Stop >>

i2c_read_with_reg ==
  << Call("start", MT_START, FALSE),
     Call("sla_w", MT_SLA_WRITE_ACK, TRUE),
     Call("reg", MT_DATA_TRANSMITTED_ACK, TRUE),
     Call("start", MT_REP_START, FALSE),
     Call("sla_r", MT_SLA_READ_ACK, TRUE),
     Call("rx_nack", MT_DATA_RECEIVED_NACK, TRUE),
     Stop >>

i2c_read_multi_no_reg ==
  << Call("start", MT_START, FALSE),
     Call("sla_r", MT_SLA_READ_ACK, TRUE),
     RxLoop(MT_DATA_RECEIVED_NACK, MT_DATA_RECEIVED_ACK, TRUE),
     Stop >>

\* Faulty variant: the final i2c_stop before return SUCCESS is missing.
i2c_read_multi_with_reg_NoFinalStop ==
  << Call("start", MT_START, FALSE),
     Call("sla_w", MT_SLA_WRITE_ACK, TRUE),
     Call("reg", MT_DATA_TRANSMITTED_ACK, TRUE),
     Call("start", MT_REP_START, FALSE),
     Call("sla_r", MT_SLA_READ_ACK, TRUE),
     RxLoop(MT_DATA_RECEIVED_NACK, MT_DATA_RECEIVED_ACK, TRUE) >>

\* Faulty variant: the second i2c_start and its check are missing.
i2c_read_multi_with_reg_NoRepStart ==
  << Call("start", MT_START, FALSE),
     Call("sla_w", MT_SLA_WRITE_ACK, TRUE),
     Call("reg", MT_DATA_TRANSMITTED_ACK, TRUE),
     Call("sla_r", MT_SLA_READ_ACK, TRUE),
     RxLoop(MT_DATA_RECEIVED_NACK, MT_DATA_RECEIVED_ACK, TRUE),
     Stop >>

i2c_read_multi_with_reg ==
  << Call("start", MT_START, FALSE),
     Call("sla_w", MT_SLA_WRITE_ACK, TRUE),
     Call("reg", MT_DATA_TRANSMITTED_ACK, TRUE),
     Call("start", MT_REP_START, FALSE),
     Call("sla_r", MT_SLA_READ_ACK, TRUE),
     RxLoop(MT_DATA_RECEIVED_NACK, MT_DATA_RECEIVED_ACK, TRUE),
     Stop >>

Program(f) ==
  CASE f = "i2c_is_device_connected" -> i2c_is_device_connected
    [] f = "i2c_write_no_reg" -> i2c_write_no_reg
    [] f = "i2c_write_with_reg" -> i2c_write_with_reg
    [] f = "i2c_write_multi_no_reg" -> i2c_write_multi_no_reg
    [] f = "i2c_write_multi_with_reg" -> i2c_write_multi_with_reg
    [] f = "i2c_read_no_reg" -> i2c_read_no_reg
    [] f = "i2c_read_with_reg" -> i2c_read_with_reg
    [] f = "i2c_read_multi_no_reg" -> i2c_read_multi_no_reg
    [] f = "i2c_read_multi_with_reg" -> i2c_read_multi_with_reg

\* The call the caller is at.
cur == Program(op)[step]

\* Faulty variant: the loop stops one byte early: i < len - 1.
LoopCond_OneShort(k, n) == k < n - 1

\* for (int i = 0; i < len; i++)
LoopCond(k, n) == k < n

\* Faulty variant: the last byte is looked for one past the end: i == len.
IsLast_OffByOne(k, n) == k = n

\* if (i == (len - 1))
IsLast(k, n) == k = n - 1

IsLoop(c) == c.prim \in {"tx_loop", "rx_loop"}

\* Faulty variant: the loop body is executed before the condition is looked
\* at, as in a do-while loop.
Enter_NoSkip(f, s) == s

\* The index of the call executed after call s - 1 is finished: a for loop
\* whose condition is false at i = 0 is passed over.
Enter(f, s) ==
  IF s <= Len(Program(f)) /\ IsLoop(Program(f)[s]) /\ ~LoopCond(0, len)
  THEN s + 1
  ELSE s

\* Past the last call of a function comes its return SUCCESS.
AtEnd(f, s) == s > Len(Program(f))

\* The code i2c_check_status is called with after the current call.
ExpectedCode ==
  IF cur.prim = "rx_loop" /\ ~IsLast(i, len) THEN cur.expectAck
  ELSE cur.expect

\* The argument of i2c_transmit in the current call.
TxByte ==
  CASE cur.prim = "sla_w" -> SlaByte(address, I2C_WRITE)
    [] cur.prim = "sla_r" -> SlaByte(address, I2C_READ)
    [] cur.prim = "reg" -> reg
    [] cur.prim = "data" -> data[1]
    [] cur.prim = "tx_loop" -> data[i + 1]

\* Where a received byte is stored: *data, or data[i].
RxIndex == IF cur.prim = "rx_loop" THEN i + 1 ELSE 1

\* One entry of trace.
Ev(k, a, b) == [k |-> k, a |-> a, b |-> b]

(* ------------------------------------------------------------------ *)
(* Initial state: the registers after reset, nothing called yet.       *)
(* ------------------------------------------------------------------ *)
Init ==
  /\ TWCR = {}
  /\ TWSR = 248
  /\ TWDR = 255
  /\ TWBR = 0
  /\ hwJob = "none"
  /\ pc = "reset"
  /\ op = "none"
  /\ step = 1
  /\ i = 0
  /\ address = 0
  /\ reg = 0
  /\ len = 0
  /\ data = <<0>>
  /\ result = NoResult
  /\ trace = <<>>
  /\ ctx = "main"
  /\ saved = NoFrame
  /\ jobBy = NoOne
  /\ statusBy = NoOne
  /\ lastRead = NoRead
  /\ prev = NoPrev

(* ------------------------------------------------------------------ *)
(* i2c_init, called once at startup                                    *)
(* ------------------------------------------------------------------ *)
i2c_init ==
  /\ pc = "reset"
  /\ TWBR' = 18
  /\ TWSR' = 0
  /\ TWCR' = TWCR \cup {"TWEN"}
  /\ pc' = "idle"
  /\ UNCHANGED <<TWDR, hwJob, op, step, i, address, reg, len, data, result,
                 trace>>
  /\ UNCHANGED <<ctx, saved, owner, frame>>

(* ------------------------------------------------------------------ *)
(* The caller enters a public function.                                *)
(* ------------------------------------------------------------------ *)
Enter_function(f, a, r, n, d) ==
  /\ pc \in {"idle", "done"}
  /\ op' = f
  /\ address' = a
  /\ reg' = r
  /\ len' = n
  /\ data' = d
  /\ step' = 1
  /\ i' = 0
  /\ result' = NoResult
  /\ trace' = <<>>
  /\ pc' = "prim"
  /\ lastRead' = NoRead
  /\ prev' = IF /\ pc = "done"
                /\ op = "i2c_is_device_connected"
                /\ f = "i2c_write_multi_no_reg"
                /\ n = 0
                /\ a = address
             THEN [trace |-> trace, result |-> result]
             ELSE NoPrev
  /\ jobBy' = NoOne
  /\ statusBy' = NoOne
  /\ UNCHANGED hw
  /\ UNCHANGED <<ctx, saved>>

CallPublic ==
  /\ ctx = "main"
  /\ \E a \in Addresses :
       \/ Enter_function("i2c_is_device_connected", a, 0, 0, <<0>>)
       \/ \E d \in DataValues : Enter_function("i2c_write_no_reg", a, 0, 1, <<d>>)
       \/ \E r \in Regs, d \in DataValues :
            Enter_function("i2c_write_with_reg", a, r, 1, <<d>>)
       \/ \E n \in 0..MaxLen, d \in WriteBuffers :
            Enter_function("i2c_write_multi_no_reg", a, 0, n, d)
       \/ \E r \in Regs, n \in 0..MaxLen, d \in WriteBuffers :
            Enter_function("i2c_write_multi_with_reg", a, r, n, d)
       \/ Enter_function("i2c_read_no_reg", a, 0, 1, <<238>>)
       \/ \E r \in Regs : Enter_function("i2c_read_with_reg", a, r, 1, <<238>>)
       \/ \E n \in 0..MaxLen :
            Enter_function("i2c_read_multi_no_reg", a, 0, n, ReadBuffer)
       \/ \E r \in Regs, n \in 0..MaxLen :
            Enter_function("i2c_read_multi_with_reg", a, r, n, ReadBuffer)

(* ------------------------------------------------------------------ *)
(* The private functions.  Writing 1 to TWINT clears the flag and      *)
(* starts the module's job, so the register reads back without TWINT   *)
(* until the hardware sets it.                                         *)
(* ------------------------------------------------------------------ *)
i2c_start ==
  /\ pc = "prim"
  /\ cur.prim = "start"
  /\ TWCR' = {"TWSTA", "TWEN"}
  /\ hwJob' = "start"
  /\ trace' = Append(trace, Ev("start", 0, 0))
  /\ pc' = "wait"
  /\ UNCHANGED <<TWSR, TWDR, TWBR, step, i, data, result>>
  /\ jobBy' = <<ctx, Len(trace) + 1>>
  /\ UNCHANGED <<ctx, saved, statusBy, frame>>
  /\ UNCHANGED args

\* Faulty variant: the transmit returns without waiting for TWINT.
i2c_transmit_NoWait ==
  /\ pc = "prim"
  /\ cur.prim \in {"sla_w", "sla_r", "reg", "data", "tx_loop"}
  /\ TWDR' = TxByte
  /\ TWCR' = {"TWEN"}
  /\ hwJob' = "tx"
  /\ trace' = Append(trace, Ev("tx", TxByte, 0))
  /\ pc' = "check"
  /\ UNCHANGED <<TWSR, TWBR, step, i, data, result>>
  /\ jobBy' = <<ctx, Len(trace) + 1>>
  /\ UNCHANGED <<ctx, saved, statusBy, frame>>
  /\ UNCHANGED args

i2c_transmit ==
  /\ pc = "prim"
  /\ cur.prim \in {"sla_w", "sla_r", "reg", "data", "tx_loop"}
  /\ TWDR' = TxByte
  /\ TWCR' = {"TWEN"}
  /\ hwJob' = "tx"
  /\ trace' = Append(trace, Ev("tx", TxByte, 0))
  /\ pc' = "wait"
  /\ UNCHANGED <<TWSR, TWBR, step, i, data, result>>
  /\ jobBy' = <<ctx, Len(trace) + 1>>
  /\ UNCHANGED <<ctx, saved, statusBy, frame>>
  /\ UNCHANGED args

i2c_receive_ack ==
  /\ pc = "prim"
  /\ cur.prim = "rx_loop"
  /\ ~IsLast(i, len)
  /\ TWCR' = {"TWEA", "TWEN"}
  /\ hwJob' = "rx"
  /\ trace' = Append(trace, Ev("rx", 1, 0))
  /\ pc' = "wait"
  /\ UNCHANGED <<TWSR, TWDR, TWBR, step, i, data, result>>
  /\ jobBy' = <<ctx, Len(trace) + 1>>
  /\ UNCHANGED <<ctx, saved, statusBy, frame>>
  /\ UNCHANGED args

i2c_receive_nack ==
  /\ pc = "prim"
  /\ \/ cur.prim = "rx_nack"
     \/ cur.prim = "rx_loop" /\ IsLast(i, len)
  /\ TWCR' = {"TWEN"}
  /\ hwJob' = "rx"
  /\ trace' = Append(trace, Ev("rx", 0, 0))
  /\ pc' = "wait"
  /\ UNCHANGED <<TWSR, TWDR, TWBR, step, i, data, result>>
  /\ jobBy' = <<ctx, Len(trace) + 1>>
  /\ UNCHANGED <<ctx, saved, statusBy, frame>>
  /\ UNCHANGED args

\* Faulty variant: the loop polls TWSTO, which no start, transmit or receive
\* ever sets.
i2c_wait_until_finish_PollsTWSTO ==
  /\ pc = "wait"
  /\ "TWSTO" \in TWCR
  /\ pc' = IF cur.prim \in {"rx_nack", "rx_loop"} THEN "store" ELSE "check"
  /\ UNCHANGED <<step, i, data, result, trace>>
  /\ UNCHANGED hw
  /\ UNCHANGED <<ctx, saved, owner, frame>>
  /\ UNCHANGED args

\* Faulty variant: the loop gives up although the flag is not set.
i2c_wait_until_finish_GivesUp ==
  /\ pc = "wait"
  /\ pc' = IF cur.prim \in {"rx_nack", "rx_loop"} THEN "store" ELSE "check"
  /\ UNCHANGED <<step, i, data, result, trace>>
  /\ UNCHANGED hw
  /\ UNCHANGED <<ctx, saved, owner, frame>>
  /\ UNCHANGED args

\* while (!(TWCR & (1 << TWINT))); the primitive returns once the flag is
\* set.  A receive primitive's value still has to be read and stored.
i2c_wait_until_finish ==
  /\ pc = "wait"
  /\ "TWINT" \in TWCR
  /\ pc' = IF cur.prim \in {"rx_nack", "rx_loop"} THEN "store" ELSE "check"
  /\ UNCHANGED <<step, i, data, result, trace>>
  /\ UNCHANGED hw
  /\ UNCHANGED <<ctx, saved, owner, frame>>
  /\ UNCHANGED args

\* Faulty variant: the received byte is stored only if its status is the
\* expected one.
StoreReceived_OnlyIfChecked ==
  /\ pc = "store"
  /\ data' = IF StatusBits(TWSR) = ExpectedCode
             THEN [data EXCEPT ![RxIndex] = TWDR]
             ELSE data
  /\ pc' = "check"
  /\ UNCHANGED <<step, i, result, trace>>
  /\ UNCHANGED hw
  /\ UNCHANGED <<ctx, saved, owner, frame>>
  /\ UNCHANGED args

\* return TWDR; and the caller's *data = ... or data[i] = ...
StoreReceived ==
  /\ pc = "store"
  /\ data' = [data EXCEPT ![RxIndex] = TWDR]
  /\ pc' = "check"
  /\ UNCHANGED <<step, i, result, trace>>
  /\ UNCHANGED hw
  /\ UNCHANGED <<ctx, saved, owner, frame>>
  /\ UNCHANGED args

\* Faulty variant: the mask is 0xF0, so 0x18 passes for 0x10, 0x28 for 0x20, ...
i2c_check_status_MaskF0(status_code) ==
  IF TWSR - (TWSR % 16) = status_code THEN SUCCESS ELSE ERROR

\* Faulty variant: TWSR is compared unmasked.
i2c_check_status_NoMask(status_code) ==
  IF TWSR = status_code THEN SUCCESS ELSE ERROR

\* (TWSR & 0xF8) == status_code
i2c_check_status(status_code) ==
  IF StatusBits(TWSR) = status_code THEN SUCCESS ELSE ERROR

\* if (i2c_check_status(...) == ERROR) { [i2c_stop();] return ERROR; }
\* and otherwise on to the next call, or round the loop.
CheckStatus ==
  /\ pc = "check"
  /\ trace' = Append(trace, Ev("chk", ExpectedCode, StatusBits(TWSR)))
  /\ IF i2c_check_status(ExpectedCode) = ERROR
     THEN /\ pc' = IF cur.stopOnErr THEN "stop_err" ELSE "ret_err"
          /\ UNCHANGED <<step, i>>
     ELSE IF IsLoop(cur) /\ LoopCond(i + 1, len)
          THEN /\ i' = i + 1
               /\ step' = step
               /\ pc' = "prim"
          ELSE /\ i' = 0
               /\ step' = Enter(op, step + 1)
               /\ pc' = IF AtEnd(op, step') THEN "ret_ok" ELSE "prim"
  /\ UNCHANGED <<data, result>>
  /\ UNCHANGED hw
  /\ lastRead' = [reader |-> <<ctx, Len(trace)>>, producer |-> statusBy]
  /\ UNCHANGED <<ctx, saved, owner, prev>>
  /\ UNCHANGED args

\* Faulty variant: TWCR ^= (1 << TWSTO) in place of the assignment.
WriteStop_Toggles ==
  /\ TWCR' = IF "TWSTO" \in TWCR THEN {"TWEN"} ELSE {"TWSTO", "TWEN"}
  /\ hwJob' = "none"
  /\ UNCHANGED <<TWSR, TWDR, TWBR>>

\* TWCR = (1 << TWINT) | (1 << TWEN) | (1 << TWSTO); the 1 written to TWINT
\* clears the flag.  No job is left whose end the caller could wait for.
WriteStop ==
  /\ TWCR' = {"TWSTO", "TWEN"}
  /\ hwJob' = "none"
  /\ UNCHANGED <<TWSR, TWDR, TWBR>>

\* Faulty variant: the stop is followed by the wait loop of the other
\* primitives.
i2c_stop_Waits ==
  /\ \/ /\ pc = "stop_err"
        /\ step' = step
     \/ /\ pc = "prim"
        /\ cur.prim = "stop"
        /\ step' = step
  /\ pc' = "wait"
  /\ TWCR' = {"TWSTO", "TWEN"}
  /\ hwJob' = "none"
  /\ trace' = Append(trace, Ev("stop", 0, 0))
  /\ UNCHANGED <<TWSR, TWDR, TWBR, i, data, result>>
  /\ UNCHANGED <<ctx, saved, owner, frame>>
  /\ UNCHANGED args

\* TWCR = (1 << TWINT) | (1 << TWSTO) | (1 << TWEN); no wait.
i2c_stop ==
  /\ \/ /\ pc = "stop_err"
        /\ pc' = "ret_err"
        /\ step' = step
     \/ /\ pc = "prim"
        /\ cur.prim = "stop"
        /\ step' = Enter(op, step + 1)
        /\ pc' = IF AtEnd(op, step') THEN "ret_ok" ELSE "prim"
  /\ WriteStop
  /\ trace' = Append(trace, Ev("stop", 0, 0))
  /\ UNCHANGED <<i, data, result>>
  /\ UNCHANGED <<ctx, saved, owner, frame>>
  /\ UNCHANGED args

\* return SUCCESS; / return ERROR;
Return ==
  /\ pc \in {"ret_ok", "ret_err"}
  /\ result' = IF pc = "ret_ok" THEN SUCCESS ELSE ERROR
  /\ pc' = "done"
  /\ UNCHANGED <<step, i, data, trace>>
  /\ UNCHANGED hw
  /\ UNCHANGED <<ctx, saved, owner, frame>>
  /\ UNCHANGED args

(* ------------------------------------------------------------------ *)
(* The TWI module finishes the job it was given: it sets TWINT and     *)
(* leaves a status code in TWSR7:3 (the prescaler bits keep their      *)
(* value); a finished receive leaves the slave's byte in TWDR.         *)
(* ------------------------------------------------------------------ *)
HwComplete ==
  /\ hwJob # "none"
  /\ "TWINT" \notin TWCR
  /\ \E code \in StatusCodes : TWSR' = code + (TWSR % 8)
  /\ IF hwJob = "rx" THEN TWDR' \in RxBytes ELSE TWDR' = TWDR
  /\ TWCR' = TWCR \cup {"TWINT"}
  /\ hwJob' = "none"
  /\ UNCHANGED <<TWBR, pc, step, i, data, result, trace>>
  /\ statusBy' = jobBy
  /\ UNCHANGED <<ctx, saved, jobBy, frame>>
  /\ UNCHANGED args

Next ==
  \/ i2c_init
  \/ CallPublic
  \/ i2c_start
  \/ i2c_transmit
  \/ i2c_receive_ack
  \/ i2c_receive_nack
  \/ i2c_wait_until_finish
  \/ StoreReceived
  \/ CheckStatus
  \/ i2c_stop
  \/ Return
  \/ HwComplete

Spec == Init /\ [][Next]_vars

\* The steps of the calling code: everything but the entry into a public
\* function and the hardware's own step.
CallerStep ==
  \/ i2c_start
  \/ i2c_transmit
  \/ i2c_receive_ack
  \/ i2c_receive_nack
  \/ i2c_wait_until_finish
  \/ StoreReceived
  \/ CheckStatus
  \/ i2c_stop
  \/ Return

\* The processor keeps executing the code it is in, and the TWI module
\* finishes every job it is given.
SpecFair ==
  /\ Init
  /\ [][Next]_vars
  /\ WF_vars(CallerStep)
  /\ WF_vars(HwComplete)

(* ------------------------------------------------------------------ *)
(* Reading the trace of a call                                         *)
(* ------------------------------------------------------------------ *)
Idx(t) == 1..Len(t)

Kind(t, k) == { j \in Idx(t) : t[j].k = k }

\* Status checks whose observed code (b) is not the expected one (a).
Failing(t) == { j \in Kind(t, "chk") : t[j].a # t[j].b }

\* The j-th smallest element of a finite set of indices.
RECURSIVE Nth(_, _)
Nth(S, j) ==
  LET m == CHOOSE x \in S : \A y \in S : x <= y
  IN IF j = 1 THEN m ELSE Nth(S \ {m}, j - 1)

Returned == pc = "done"

Reads == { "i2c_read_no_reg", "i2c_read_with_reg", "i2c_read_multi_no_reg",
           "i2c_read_multi_with_reg" }

RegReads == { "i2c_read_with_reg", "i2c_read_multi_with_reg" }

MultiReads == { "i2c_read_multi_no_reg", "i2c_read_multi_with_reg" }

MultiWrites == { "i2c_write_multi_no_reg", "i2c_write_multi_with_reg" }

\* Start conditions of the call after its first one.
RepStarts(t) == { j \in Kind(t, "start") : \E m \in Kind(t, "start") : m < j }

(* ------------------------------------------------------------------ *)
(* C1                                                                  *)
(* ------------------------------------------------------------------ *)
\* C1: whenever a public function is about to return or has returned ERROR,
\* a status check of the call failed; if that check is the one after a
\* start or a repeated start, the call issued no stop at all, and otherwise
\* the stop is the one primitive issued after the failing check, before the
\* return.
C1_StopBeforeErrorExceptStart ==
  (pc = "ret_err" \/ (Returned /\ result = ERROR)) =>
    \E j \in Failing(trace) :
      /\ j >= 2
      /\ IF trace[j - 1].k = "start"
         THEN Kind(trace, "stop") = {} /\ Len(trace) = j
         ELSE Len(trace) = j + 1 /\ trace[j + 1].k = "stop"

\* C1 witness: a register-addressed read returned ERROR at the check after
\* its repeated start, and no stop was issued.
C1_Witness ==
  /\ Returned
  /\ result = ERROR
  /\ op \in RegReads
  /\ RepStarts(trace) # {}
  /\ trace[Len(trace) - 1].k = "start"
  /\ Kind(trace, "stop") = {}

(* ------------------------------------------------------------------ *)
(* C2                                                                  *)
(* ------------------------------------------------------------------ *)
\* The number of status checks of a whole call.
NumChecks(f, n) ==
  CASE f = "i2c_is_device_connected" -> 2
    [] f = "i2c_write_no_reg" -> 3
    [] f = "i2c_write_with_reg" -> 4
    [] f = "i2c_write_multi_no_reg" -> 2 + n
    [] f = "i2c_write_multi_with_reg" -> 3 + n
    [] f = "i2c_read_no_reg" -> 3
    [] f = "i2c_read_with_reg" -> 6
    [] f = "i2c_read_multi_no_reg" -> 2 + n
    [] f = "i2c_read_multi_with_reg" -> 5 + n

\* C2: after the first status check that does not match, the call issues
\* nothing but at most one stop and is on its way to return ERROR; a call
\* that returned has returned SUCCESS exactly when it made every check of
\* its sequence and each matched, and ERROR otherwise.
C2_FirstMismatchAborts ==
  /\ \A j \in Failing(trace) :
       /\ \A m \in Idx(trace) : m > j => (m = j + 1 /\ trace[m].k = "stop")
       /\ pc \in {"stop_err", "ret_err", "done"}
       /\ Returned => result = ERROR
  /\ Returned =>
       /\ result = ERROR <=> Failing(trace) # {}
       /\ result = SUCCESS <=>
            /\ Failing(trace) = {}
            /\ Cardinality(Kind(trace, "chk")) = NumChecks(op, len)

\* C2 witness: a register write returned ERROR at its second check of four;
\* the register and data bytes were never transmitted.
C2_Witness ==
  /\ Returned
  /\ result = ERROR
  /\ op = "i2c_write_with_reg"
  /\ Failing(trace) = {4}
  /\ Cardinality(Kind(trace, "tx")) = 1
  /\ Len(trace) = 5

(* ------------------------------------------------------------------ *)
(* C3                                                                  *)
(* ------------------------------------------------------------------ *)
\* C3: the first primitive a public function issues is a start, it has
\* issued it by the time it waits, checks or returns, and a call that
\* returned SUCCESS issued a stop as its last primitive.
C3_StartFirstStopLast ==
  /\ trace # <<>> => trace[1].k = "start"
  /\ pc \in {"wait", "store", "check", "stop_err", "ret_err", "ret_ok", "done"}
       => trace # <<>>
  /\ (Returned /\ result = SUCCESS) =>
       /\ trace[Len(trace)].k = "stop"
       /\ Cardinality(Kind(trace, "stop")) = 1

\* C3 witness: a multi-byte register read of MaxLen bytes returned SUCCESS.
C3_Witness ==
  /\ Returned
  /\ result = SUCCESS
  /\ op = "i2c_read_multi_with_reg"
  /\ len = MaxLen
  /\ trace[1].k = "start"
  /\ trace[Len(trace)].k = "stop"

(* ------------------------------------------------------------------ *)
(* C4                                                                  *)
(* ------------------------------------------------------------------ *)
\* C4: a multi-byte read of length N >= 1 that returned SUCCESS made
\* exactly N receives; each of the first N-1 was triggered with TWEA set
\* and checked against 0x50, the N-th with TWEA clear and checked against
\* 0x58.
C4_AckAllButLast ==
  (Returned /\ result = SUCCESS /\ op \in MultiReads /\ len >= 1) =>
    LET rx == Kind(trace, "rx") IN
      /\ Cardinality(rx) = len
      /\ \A m \in 1..len :
           LET j == Nth(rx, m) IN
             /\ trace[j].a = (IF m < len THEN 1 ELSE 0)
             /\ trace[j + 1].k = "chk"
             /\ trace[j + 1].a = (IF m < len THEN 80 ELSE 88)
             /\ trace[j + 1].b = trace[j + 1].a

\* C4 witness: a successful multi-byte read of MaxLen >= 2 bytes, so with at
\* least one acknowledged byte before the last.
C4_Witness ==
  /\ Returned
  /\ result = SUCCESS
  /\ op \in MultiReads
  /\ len = MaxLen
  /\ len >= 2
  /\ \E j \in Kind(trace, "rx") : trace[j].a = 1
  /\ \E j \in Kind(trace, "rx") : trace[j].a = 0

(* ------------------------------------------------------------------ *)
(* C5                                                                  *)
(* ------------------------------------------------------------------ *)
\* Where a repeated start at index j of the trace sits: after the
\* address-with-write byte and the register byte, the only bytes
\* transmitted before it, with no stop and no receive before it, and
\* before the address-with-read byte, the only byte transmitted after it.
RepStartPlaced(j) ==
  /\ Kind(trace, "stop") \cap 1..j = {}
  /\ Kind(trace, "rx") \cap 1..j = {}
  /\ Kind(trace, "tx") \cap 1..j = {3, 5}
  /\ trace[3].a = (2 * address) % 256
  /\ trace[5].a = reg
  /\ j > 5
  /\ \A m \in Kind(trace, "tx") :
       m > j => (m = j + 2 /\ trace[m].a = (2 * address + 1) % 256)

\* C5 as stated: every call of a register-addressed read that has returned
\* contains exactly one repeated start, placed as above.
C5_Original_ExactlyOneRepStartInEveryCall ==
  (Returned /\ op \in RegReads) =>
    /\ Cardinality(RepStarts(trace)) = 1
    /\ \A j \in RepStarts(trace) : RepStartPlaced(j)

\* C5 amended: a call of a register-addressed read contains at most one
\* repeated start, placed as above; it contains one as soon as the checks
\* after the start, the address-with-write byte and the register byte have
\* all matched, and so in every call that returns SUCCESS; a call that
\* fails at one of those three checks contains none.
C5_OneRepStartOncePreambleAcked ==
  op \in RegReads =>
    LET chk == Kind(trace, "chk")
        preambleOk == /\ Cardinality(chk) >= 3
                      /\ \A m \in 1..3 : Nth(chk, m) \notin Failing(trace)
    IN
      /\ Cardinality(RepStarts(trace)) <= 1
      /\ \A j \in RepStarts(trace) : RepStartPlaced(j) /\ preambleOk
      /\ (preambleOk /\ pc \notin {"prim"}) =>
           Cardinality(RepStarts(trace)) = 1
      /\ (Returned /\ result = SUCCESS) => Cardinality(RepStarts(trace)) = 1

\* C5 witness: a register-addressed multi-byte read returned SUCCESS with
\* its one repeated start between the register byte and the
\* address-with-read byte.
C5_Witness ==
  /\ Returned
  /\ result = SUCCESS
  /\ op = "i2c_read_multi_with_reg"
  /\ len >= 1
  /\ RepStarts(trace) = {7}
  /\ trace[5] = Ev("tx", reg, 0)
  /\ trace[9] = Ev("tx", (2 * address + 1) % 256, 0)

(* ------------------------------------------------------------------ *)
(* C6                                                                  *)
(* ------------------------------------------------------------------ *)
\* The trace of a call that made exactly the bus phases ph (each a start
\* or a transmitted byte), checked each one successfully, and stopped.
IsCheckedPhases(t, ph) ==
  /\ Len(t) = 2 * Len(ph) + 1
  /\ \A m \in 1..Len(ph) :
       /\ t[2 * m - 1] = ph[m]
       /\ t[2 * m].k = "chk"
       /\ t[2 * m].a = t[2 * m].b
  /\ t[Len(t)].k = "stop"

DataPhases(n) == [m \in 1..n |-> Ev("tx", data[m], 0)]

\* C6 as stated: a successful multi-byte write of length N, of either
\* variant, has exactly N+2 bus phases before its stop.
C6_Original_NPlus2Phases ==
  (Returned /\ result = SUCCESS /\ op \in MultiWrites) =>
    Cardinality(Kind(trace, "start") \cup Kind(trace, "tx")) = len + 2

\* C6 amended: a successful i2c_write_multi_no_reg of length N has exactly
\* N+2 bus phases before the stop (start, address byte, N data bytes); a
\* successful i2c_write_multi_with_reg has exactly N+3 (start, address
\* byte, register byte, N data bytes); each phase is followed by its own
\* matching status check and the call ends with stop.
C6_PhasesOfMultiWrite ==
  (Returned /\ result = SUCCESS /\ op \in MultiWrites) =>
    LET head == << Ev("start", 0, 0), Ev("tx", (2 * address) % 256, 0) >>
        regb == IF op = "i2c_write_multi_with_reg"
                THEN << Ev("tx", reg, 0) >>
                ELSE << >>
        ph == head \o regb \o DataPhases(len)
    IN /\ IsCheckedPhases(trace, ph)
       /\ Len(ph) = len + (IF op = "i2c_write_multi_with_reg" THEN 3 ELSE 2)

\* C6 witness: a successful i2c_write_multi_with_reg of MaxLen bytes, with
\* MaxLen + 3 phases.
C6_Witness ==
  /\ Returned
  /\ result = SUCCESS
  /\ op = "i2c_write_multi_with_reg"
  /\ len = MaxLen
  /\ Cardinality(Kind(trace, "start") \cup Kind(trace, "tx")) = len + 3

(* ------------------------------------------------------------------ *)
(* C7                                                                  *)
(* ------------------------------------------------------------------ *)
\* The number of checked phases before the first data byte.
Preamble(f) == IF f = "i2c_write_multi_with_reg" THEN 3 ELSE 2

\* C7: in a multi-byte write, when the check after the k-th data byte is
\* the failing one, k <= len, exactly the data bytes 1..k have been
\* transmitted, in order, nothing but a stop follows the check, and the
\* call returns ERROR with the stop issued.
C7_NackAtByteK ==
  op \in MultiWrites =>
    \A j \in Failing(trace) :
      LET c == Cardinality(Kind(trace, "chk") \cap 1..j)
          k == c - Preamble(op)
          tx == Kind(trace, "tx")
      IN k >= 1 =>
           /\ k <= len
           /\ Cardinality(tx) = Preamble(op) - 1 + k
           /\ \A m \in 1..k :
                trace[Nth(tx, Preamble(op) - 1 + m)].a = data[m]
           /\ pc \in {"stop_err", "ret_err", "done"}
           /\ pc \in {"ret_err", "done"} =>
                (Len(trace) = j + 1 /\ trace[j + 1].k = "stop")
           /\ Returned => result = ERROR

\* C7 witness: i2c_write_multi_no_reg(0x27, {0x01, 0x02, 0x03}, 3) returned
\* ERROR because the second data byte was answered 0x30: two data bytes
\* were transmitted, the third never, and the stop was issued.
C7_Witness ==
  /\ Returned
  /\ result = ERROR
  /\ op = "i2c_write_multi_no_reg"
  /\ address = 39
  /\ len = 3
  /\ data = <<1, 2, 3>>
  /\ Failing(trace) = {8}
  /\ trace[8] = Ev("chk", 40, 48)
  /\ Kind(trace, "tx") = {3, 5, 7}
  /\ trace[5].a = 1
  /\ trace[7].a = 2
  /\ trace[Len(trace)].k = "stop"

(* ------------------------------------------------------------------ *)
(* C8                                                                  *)
(* ------------------------------------------------------------------ *)
\* In i2c_is_device_connected the address byte has been transmitted and
\* the status found after it is "SLA+W transmitted, NACK received": no
\* device answered the address.
ProbeNotAnswered ==
  /\ op = "i2c_is_device_connected"
  /\ Len(trace) >= 4
  /\ trace[3].k = "tx"
  /\ trace[4].k = "chk"
  /\ trace[4].b = 32

\* C8: when no device answers the address phase of i2c_is_device_connected,
\* the check after the address byte fails with 0x20 observed (the code the
\* hardware left in TWSR), the call makes no data transmit and no receive -
\* its primitives are the start, the one address byte and the stop - and it
\* returns ERROR.
C8_ProbeNoDevice ==
  ProbeNotAnswered =>
    /\ 4 \in Failing(trace)
    /\ StatusBits(TWSR) = 32
    /\ Kind(trace, "rx") = {}
    /\ Kind(trace, "tx") = {3}
    /\ trace[3].a = (2 * address) % 256
    /\ Kind(trace, "start") = {1}
    /\ Len(trace) <= 5
    /\ Len(trace) = 5 => trace[5].k = "stop"
    /\ pc \in {"stop_err", "ret_err", "done"}
    /\ Returned => (result = ERROR /\ Len(trace) = 5)

\* C8 witness: i2c_is_device_connected returned after an unanswered address.
C8_Witness ==
  /\ ProbeNotAnswered
  /\ Returned
  /\ result = ERROR
  /\ trace[5].k = "stop"

(* ------------------------------------------------------------------ *)
(* C9                                                                  *)
(* ------------------------------------------------------------------ *)
\* The address phases of a call: the bytes transmitted right after the
\* check of a start.
AddrPhases(t) == { j \in Kind(t, "tx") : j >= 3 /\ t[j - 2].k = "start" }

\* The events of t after index j up to the next start, or the end.
Following(t, j) ==
  { m \in Idx(t) : m > j /\ \A q \in Kind(t, "start") : ~(j < q /\ q < m) }

\* C9: every address byte on the bus is (2*address + dir) mod 256; dir is 0
\* in the first address phase of the probe, of every write and of the
\* register-addressed reads, and in every address phase followed by
\* transmitted bytes; dir is 1 in the first address phase of the reads
\* without register, in the address phase after a repeated start, and in
\* every address phase followed by received bytes; for a 7-bit address the
\* byte's upper seven bits are the address.
C9_AddressByte ==
  \A j \in AddrPhases(trace) :
    LET byte == trace[j].a
        dir == byte % 2
        sent == Following(trace, j) \cap Kind(trace, "tx")
        rcvd == Following(trace, j) \cap Kind(trace, "rx")
    IN /\ byte = (2 * address + dir) % 256
       /\ byte \in 0..255
       /\ sent # {} => dir = 0
       /\ rcvd # {} => dir = 1
       /\ dir = (IF j > 3 \/ op \in {"i2c_read_no_reg", "i2c_read_multi_no_reg"}
                 THEN 1 ELSE 0)
       /\ address < 128 => byte \div 2 = address

\* C9 witness: a register-addressed read of an address above 127 has
\* received a byte: both address phases happened, bytes followed each, and
\* the shift dropped the address's top bit.
C9_Witness ==
  /\ op \in RegReads
  /\ address >= 128
  /\ Cardinality(AddrPhases(trace)) = 2
  /\ Kind(trace, "rx") # {}
  /\ trace[3].a = 2 * address - 256

(* ------------------------------------------------------------------ *)
(* C10                                                                 *)
(* ------------------------------------------------------------------ *)
\* The multi-byte receive phases: 0x50 for all bytes but the last, 0x58 for
\* the last.
RxCodes(n) == [m \in 1..n |-> IF m < n THEN 80 ELSE 88]

TxCodes(n) == [m \in 1..n |-> 40]

\* The status codes of each operation's row of the phase table.
PhaseTable(f, n) ==
  CASE f = "i2c_is_device_connected" -> <<8, 24>>
    [] f = "i2c_write_no_reg" -> <<8, 24, 40>>
    [] f = "i2c_write_with_reg" -> <<8, 24, 40, 40>>
    [] f = "i2c_write_multi_no_reg" -> <<8, 24>> \o TxCodes(n)
    [] f = "i2c_write_multi_with_reg" -> <<8, 24, 40>> \o TxCodes(n)
    [] f = "i2c_read_no_reg" -> <<8, 64, 88>>
    [] f = "i2c_read_with_reg" -> <<8, 24, 40, 16, 64, 88>>
    [] f = "i2c_read_multi_no_reg" -> <<8, 64>> \o RxCodes(n)
    [] f = "i2c_read_multi_with_reg" -> <<8, 24, 40, 16, 64>> \o RxCodes(n)

\* The codes observed by the status checks of t, in order.
Observed(t) ==
  [m \in 1..Cardinality(Kind(t, "chk")) |-> t[Nth(Kind(t, "chk"), m)].b]

\* C10: while every status the hardware reports is the one expected, the
\* codes a call has observed are the beginning of its row of the phase
\* table, and once it has returned they are the whole row and the result is
\* SUCCESS.
C10_PhaseTableOnExpectedCodes ==
  (op \in PublicFunctions /\ Failing(trace) = {}) =>
    LET obs == Observed(trace)
        row == PhaseTable(op, len)
    IN /\ Len(obs) <= Len(row)
       /\ obs = SubSeq(row, 1, Len(obs))
       /\ Returned => (obs = row /\ result = SUCCESS)

\* C10 witness: a register-addressed single-byte read returned SUCCESS after
\* observing 0x08, 0x18, 0x28, 0x10, 0x40, 0x58.
C10_Witness ==
  /\ Returned
  /\ result = SUCCESS
  /\ op = "i2c_read_with_reg"
  /\ Observed(trace) = <<8, 24, 40, 16, 64, 88>>

(* ------------------------------------------------------------------ *)
(* i2c_check_status on its own: any value of TWSR, any uint8_t code.   *)
(* ------------------------------------------------------------------ *)
Byte == 0..255

InitCheck ==
  /\ TWCR = {"TWINT", "TWEN"}
  /\ TWSR \in Byte
  /\ TWDR = 255
  /\ TWBR = 18
  /\ hwJob = "none"
  /\ pc = "check_alone"
  /\ op = "none"
  /\ step = 1
  /\ i = 0
  /\ address = 0
  /\ reg = 0
  /\ len = 0
  /\ data = <<0>>
  /\ result = NoResult
  /\ trace = <<>>
  /\ ctx = "main"
  /\ saved = NoFrame
  /\ jobBy = NoOne
  /\ statusBy = NoOne
  /\ lastRead = NoRead
  /\ prev = NoPrev

\* status = i2c_check_status(status_code); trace keeps the argument.
CheckAlone ==
  /\ pc = "check_alone"
  /\ \E status_code \in Byte :
       /\ result' = i2c_check_status(status_code)
       /\ trace' = <<Ev("chk", status_code, TWSR)>>
  /\ pc' = "checked_alone"
  /\ UNCHANGED <<step, i, data>>
  /\ UNCHANGED hw
  /\ UNCHANGED <<ctx, saved, owner, frame>>
  /\ UNCHANGED args

SpecCheck == InitCheck /\ [][CheckAlone]_vars

(* ------------------------------------------------------------------ *)
(* i2c_stop called a second time, with no start in between.  The TWI   *)
(* module clears TWSTO once the stop condition has been executed.      *)
(* ------------------------------------------------------------------ *)
LastIsRx(t) == t # <<>> /\ t[Len(t)].k = "rx"

LastIsStop(t) == t # <<>> /\ t[Len(t)].k = "stop"

StopAgain ==
  /\ pc = "done"
  /\ LastIsStop(trace)
  /\ Cardinality(Kind(trace, "stop")) = 1
  /\ WriteStop
  /\ trace' = Append(trace, Ev("stop", 0, 0))
  /\ UNCHANGED <<pc, step, i, data, result>>
  /\ UNCHANGED <<ctx, saved, owner, frame>>
  /\ UNCHANGED args

HwStopDone ==
  /\ "TWSTO" \in TWCR
  /\ TWCR' = TWCR \ {"TWSTO"}
  /\ UNCHANGED <<TWSR, TWDR, TWBR, hwJob>>
  /\ UNCHANGED <<pc, step, i, data, result, trace>>
  /\ UNCHANGED <<ctx, saved, owner, frame>>
  /\ UNCHANGED args

NextStop ==
  \/ Next
  \/ StopAgain
  \/ HwStopDone

SpecStop == Init /\ [][NextStop]_vars

(* ------------------------------------------------------------------ *)
(* ------------------------------------------------------------------ *)
(* A second caller.  The driver has no lock and keeps no state of its  *)
(* own, so an interrupt handler is free to call a public function      *)
(* while the main program is inside one.  The handler runs to its      *)
(* return before the main program goes on; the TWI module works on.    *)
(* ------------------------------------------------------------------ *)
\* The calls of the main program an interrupt is taken in, and what the
\* handler calls.
IsrVictims == {"i2c_write_no_reg", "i2c_read_no_reg"}

IsrAddresses == {80}

\* Locals and position of the interrupted call.
Frame ==
  [pc |-> pc, op |-> op, step |-> step, i |-> i, address |-> address,
   reg |-> reg, len |-> len, data |-> data, result |-> result,
   trace |-> trace, lastRead |-> lastRead, prev |-> prev]

\* The handler starts i2c_is_device_connected(a).
Interrupt ==
  /\ ctx = "main"
  /\ saved = NoFrame
  /\ op \in IsrVictims
  /\ pc \in {"prim", "wait", "store", "check", "stop_err", "ret_ok",
             "ret_err"}
  /\ saved' = Frame
  /\ ctx' = "isr"
  /\ \E a \in IsrAddresses : address' = a
  /\ op' = "i2c_is_device_connected"
  /\ reg' = 0
  /\ len' = 0
  /\ data' = <<0>>
  /\ step' = 1
  /\ i' = 0
  /\ result' = NoResult
  /\ trace' = <<>>
  /\ pc' = "prim"
  /\ lastRead' = NoRead
  /\ prev' = NoPrev
  /\ UNCHANGED hw
  /\ UNCHANGED owner

\* The handler's call has returned; the main program goes on where it was,
\* with the registers as the handler's call left them.
IsrReturn ==
  /\ ctx = "isr"
  /\ pc = "done"
  /\ pc' = saved.pc
  /\ op' = saved.op
  /\ step' = saved.step
  /\ i' = saved.i
  /\ address' = saved.address
  /\ reg' = saved.reg
  /\ len' = saved.len
  /\ data' = saved.data
  /\ result' = saved.result
  /\ trace' = saved.trace
  /\ lastRead' = saved.lastRead
  /\ prev' = saved.prev
  /\ saved' = NoFrame
  /\ ctx' = "main"
  /\ UNCHANGED hw
  /\ UNCHANGED owner

NextIsr ==
  \/ Next
  \/ Interrupt
  \/ IsrReturn

SpecIsr == Init /\ [][NextIsr]_vars

(* C11                                                                 *)
(* ------------------------------------------------------------------ *)
InCall == pc \in {"prim", "wait", "store", "check", "stop_err", "ret_err",
                  "ret_ok"}

\* C11: when the TWI module finishes every job it is given, every call of a
\* public function, whatever its len, eventually returns SUCCESS or ERROR.
C11_EveryCallReturns ==
  InCall ~> (Returned /\ result \in {SUCCESS, ERROR})

\* C11 witness: a multi-byte register read of MaxLen bytes, the longest
\* sequence of waits, has returned after receiving all its bytes.
C11_Witness ==
  /\ Returned
  /\ op = "i2c_read_multi_with_reg"
  /\ len = MaxLen
  /\ Cardinality(Kind(trace, "rx")) = MaxLen
  /\ result \in {SUCCESS, ERROR}

(* ------------------------------------------------------------------ *)
(* C12                                                                 *)
(* ------------------------------------------------------------------ *)
Polling == pc = "wait" /\ "TWINT" \notin TWCR

\* C12: there is no timeout: a call polling for TWINT stays where it is for
\* as long as the flag stays clear; it neither returns nor issues another
\* primitive, a stop included, nor is it replaced by another call.
C12_NoTimeout ==
  [][ (Polling /\ "TWINT" \notin TWCR')
        => /\ pc' = "wait"
           /\ trace' = trace
           /\ result' = result
           /\ <<op, step, i>>' = <<op, step, i>> ]_vars

\* C12 witness: a call polls for a flag the hardware has not set yet, after a
\* receive was triggered.
C12_Witness ==
  /\ Polling
  /\ hwJob = "rx"
  /\ trace[Len(trace)].k = "rx"
  /\ result = NoResult

(* ------------------------------------------------------------------ *)
(* C14                                                                 *)
(* ------------------------------------------------------------------ *)
StopIssued == Len(trace') = Len(trace) + 1 /\ trace'[Len(trace')].k = "stop"

\* C14: the wait loop is left only with TWINT set, so a status check is
\* reached only after the job of its primitive is finished; a stop is not
\* followed by the wait loop: the call goes on to its return with TWINT
\* clear and TWSTO still set.
C14_StopDoesNotWait ==
  [][ /\ (pc = "wait" /\ pc' # "wait") => "TWINT" \in TWCR
      /\ (pc' = "check" /\ pc # "check")
           => ("TWINT" \in TWCR' /\ hwJob' = "none")
      /\ StopIssued
           => /\ pc' \in {"ret_ok", "ret_err"}
              /\ TWCR' = {"TWSTO", "TWEN"}
      /\ (pc \in {"ret_ok", "ret_err"} /\ pc' # pc)
           => (pc' = "done" /\ TWCR' = TWCR) ]_vars

\* C14 witness: a call has returned SUCCESS right after its stop, with the
\* stop condition still pending in TWCR and every status check behind it.
C14_Witness ==
  /\ Returned
  /\ result = SUCCESS
  /\ trace[Len(trace)].k = "stop"
  /\ Kind(trace, "chk") # {}
  /\ TWCR = {"TWSTO", "TWEN"}

(* ------------------------------------------------------------------ *)
(* C15                                                                 *)
(* ------------------------------------------------------------------ *)
\* x AND y, bit by bit.
RECURSIVE BitAnd(_, _)
BitAnd(x, y) ==
  IF x = 0 \/ y = 0 THEN 0
  ELSE (x % 2) * (y % 2) + 2 * BitAnd(x \div 2, y \div 2)

\* C15: for every 8-bit TWSR and every 8-bit expected code,
\* i2c_check_status returns SUCCESS exactly when TWSR AND 0xF8 is the code,
\* and ERROR otherwise, whatever the three prescaler bits are; no register
\* is changed by it.
C15_CheckStatusMasks ==
  [][ pc' = "checked_alone"
        => /\ result' = SUCCESS <=> BitAnd(TWSR, 248) = trace'[1].a
           /\ result' = ERROR <=> BitAnd(TWSR, 248) # trace'[1].a
           /\ hw' = hw ]_vars

\* C15 witness: a check has returned SUCCESS with all three prescaler bits
\* set in TWSR.
C15_Witness ==
  /\ pc = "checked_alone"
  /\ result = SUCCESS
  /\ TWSR % 8 = 7
  /\ trace[1].a = MT_SLA_READ_ACK

(* ------------------------------------------------------------------ *)
(* C16                                                                 *)
(* ------------------------------------------------------------------ *)
\* C16: an i2c_stop that follows an i2c_stop with no start in between
\* writes the bits the first one wrote, TWSTO and TWEN, leaves TWCR as it is
\* if the first stop is still pending, and changes neither TWSR, TWDR, TWBR
\* nor what the bus is doing.
C16_StopIdempotent ==
  [][ (StopIssued /\ LastIsStop(trace))
        => /\ TWCR' = {"TWSTO", "TWEN"}
           /\ "TWSTO" \in TWCR => TWCR' = TWCR
           /\ <<TWSR, TWDR, TWBR, hwJob>>' = <<TWSR, TWDR, TWBR, hwJob>> ]_vars

\* C16 witness: two stops in a row have been issued, and TWCR holds what the
\* first one left.
C16_Witness ==
  /\ Len(trace) >= 2
  /\ trace[Len(trace)].k = "stop"
  /\ trace[Len(trace) - 1].k = "stop"
  /\ TWCR = {"TWSTO", "TWEN"}

(* ------------------------------------------------------------------ *)
(* C17                                                                 *)
(* ------------------------------------------------------------------ *)
\* Receives of the call whose byte has been stored: all but one still in
\* its wait loop or not yet assigned.
Stored ==
  Cardinality(Kind(trace, "rx")) - (IF pc \in {"wait", "store"}
                                       /\ LastIsRx(trace) THEN 1 ELSE 0)

\* C17: in a read, the caller's buffer holds a received byte in each of its
\* first Stored places and its old content in all others: nothing is written
\* before the first receive, and the byte whose status check fails is in the
\* buffer, equal to TWDR, when ERROR is returned.
C17_BufferFrame ==
  (op \in Reads /\ pc \notin {"reset", "idle"})
    => /\ Stored <= len
       /\ \A m \in 1..Len(data) :
            /\ m <= Stored => data[m] \in RxBytes
            /\ m > Stored => data[m] = ReadBuffer[m]
       /\ (Stored > 0 /\ pc \notin {"prim", "wait", "store"})
            => data[Stored] = TWDR
       /\ (Returned /\ Failing(trace) # {})
            => /\ result = ERROR
               /\ Stored = Cardinality(Kind(trace, "rx"))

\* C17 witness: a multi-byte read of MaxLen bytes has returned ERROR at the
\* check after its second receive: two bytes are stored, the rest is as the
\* caller left it.
C17_Witness ==
  /\ Returned
  /\ op = "i2c_read_multi_no_reg"
  /\ len = MaxLen
  /\ result = ERROR
  /\ Cardinality(Kind(trace, "rx")) = 2
  /\ data[1] \in RxBytes
  /\ data[2] = TWDR
  /\ \A m \in 3..MaxLen : data[m] = ReadBuffer[m]

(* ------------------------------------------------------------------ *)
(* C18                                                                 *)
(* ------------------------------------------------------------------ *)
\* C18: a call issues at most one stop, and the stop is the last thing it
\* does on the bus: no start, transmit, receive or status check follows it.
C18_OneStopLast ==
  /\ Cardinality(Kind(trace, "stop")) <= 1
  /\ \A j \in Kind(trace, "stop") : j = Len(trace)
  /\ LastIsStop(trace) => pc \in {"ret_err", "ret_ok", "done"}

\* C18 witness: a multi-byte write has returned ERROR after a failing check
\* inside its loop, a path on which the source has a stop in the failure
\* branch and another after the loop; one stop is in the trace, at its end.
C18_Witness ==
  /\ Returned
  /\ op = "i2c_write_multi_with_reg"
  /\ result = ERROR
  /\ Cardinality(Kind(trace, "tx")) = 4
  /\ Cardinality(Kind(trace, "stop")) = 1
  /\ trace[Len(trace)].k = "stop"

(* ------------------------------------------------------------------ *)
(* C19                                                                 *)
(* ------------------------------------------------------------------ *)
\* The address-with-read byte has been acknowledged.
ReadAcked(t) ==
  \E j \in Kind(t, "chk") :
    t[j].a = MT_SLA_READ_ACK /\ t[j].b = MT_SLA_READ_ACK

\* C19: a multi-byte read called with len = 0 never triggers a receive and
\* never writes the buffer; once the address-with-read byte is acknowledged
\* the only thing left is the stop, and the call returns SUCCESS.
C19_ZeroLengthRead ==
  (op \in MultiReads /\ len = 0 /\ pc \notin {"reset", "idle"})
    => /\ Kind(trace, "rx") = {}
       /\ data = ReadBuffer
       /\ ReadAcked(trace)
            => \/ /\ pc = "prim"
                  /\ cur.prim = "stop"
                  /\ trace[Len(trace)].k = "chk"
               \/ /\ pc \in {"ret_ok", "done"}
                  /\ trace[Len(trace)].k = "stop"
                  /\ trace[Len(trace) - 1].k = "chk"
                  /\ Returned => result = SUCCESS

\* C19 witness: a register read of zero bytes has returned SUCCESS; its
\* trace ends with the acknowledged address-with-read byte and the stop.
C19_Witness ==
  /\ Returned
  /\ op = "i2c_read_multi_with_reg"
  /\ len = 0
  /\ result = SUCCESS
  /\ ReadAcked(trace)
  /\ Kind(trace, "rx") = {}
  /\ data = ReadBuffer

(* ------------------------------------------------------------------ *)
(* C20                                                                 *)
(* ------------------------------------------------------------------ *)
\* The status codes the hardware answered with, in the order of the checks.
RECURSIVE Responses(_)
Responses(t) ==
  IF t = <<>> THEN <<>>
  ELSE IF t[1].k = "chk" THEN <<t[1].b>> \o Responses(Tail(t))
  ELSE Responses(Tail(t))

\* Two calls met the same hardware: as far as both got an answer, the
\* answers are the same.
SameResponses(s, t) ==
  \A j \in 1..Len(Responses(s)) :
    j <= Len(Responses(t)) => Responses(s)[j] = Responses(t)[j]

\* C20: i2c_write_multi_no_reg with len = 0, called after
\* i2c_is_device_connected with the same address and answered by the
\* hardware in the same way, issues the same primitives and status checks,
\* in the same order, and returns the same result.
C20_ZeroLengthWriteIsProbe ==
  ( /\ Returned
    /\ op = "i2c_write_multi_no_reg"
    /\ len = 0
    /\ prev # NoPrev
    /\ SameResponses(prev.trace, trace) )
    => /\ trace = prev.trace
       /\ result = prev.result

\* C20 witness: after a probe that found no device, a zero-length write to
\* the same address has met the same answers and returned.
C20_Witness ==
  /\ Returned
  /\ op = "i2c_write_multi_no_reg"
  /\ len = 0
  /\ prev # NoPrev
  /\ prev.result = ERROR
  /\ Responses(prev.trace) = <<MT_START, MT_SLA_WRITE_NACK>>
  /\ SameResponses(prev.trace, trace)
  /\ Kind(trace, "stop") # {}

(* ------------------------------------------------------------------ *)
(* C13                                                                 *)
(* ------------------------------------------------------------------ *)
\* The last status check read a status that the primitive before it, in the
\* same call, did not produce.
ForeignRead == lastRead # NoRead /\ lastRead.reader # lastRead.producer

\* C13: a status check reads the status of a primitive other than the one
\* it follows only if that primitive was issued by the other caller: the
\* main program's check then reads what a primitive of the interrupt
\* handler's call produced.  Where no handler has issued a primitive, so
\* with the main program alone, every check reads its own primitive's
\* status.
C13_ForeignReadNeedsSecondCaller ==
  ForeignRead
    => /\ lastRead.reader[1] = "main"
       /\ lastRead.producer[1] = "isr"

\* C13 witness: the main program, interrupted inside a call, has made a
\* status check on the status left by a primitive of the handler's call.
C13_Witness ==
  /\ ctx = "main"
  /\ op = "i2c_write_no_reg"
  /\ ForeignRead
  /\ lastRead.reader[1] = "main"
  /\ lastRead.producer[1] = "isr"

====
